---- MODULE Spec2Model ----
(***************************************************************************)
(* Blocking I2C master driver of stm32f7xx-hal (src/src/i2c.rs).           *)
(*                                                                         *)
(* The driver (BlockingI2c) is a sequential program; the I2C peripheral    *)
(* and the DWT cycle counter are its environment.  Driver steps are the    *)
(* register accesses of write / read / write_read in program order; the    *)
(* environment sets status latches, clears CR2.START and advances the      *)
(* cycle counter between them.                                             *)
(***************************************************************************)
EXTENDS Integers, Sequences, FiniteSets, TLC

\* ------------------------------------------------------------ bounds ----
\* Longest payload / buffer that is actually transferred in the model.
MaxLen == 2
\* Largest data_timeout_us handed to the constructor.
MaxTimeoutUs == 1
\* How far the cycle counter may run past the budget inside one wait.
TickSlack == 1

\* --------------------------------------------------- program constants ----
\* A u32 (the DWT cycle count, data_timeout) is the pair <<high, low>> of its
\* 16-bit halves: 2^32 is more than TLC's integers hold.
Half == 65536
\* u8 arithmetic of addr << 1 and of `len as u8`.
U8 == 256
\* assert!(bytes.len() < 256 && bytes.len() > 0)
LenLimit == 256
\* clocks.sysclk().0 / 1_000_000
HzPerMHz == 1000000
\* assert!(mode.get_frequency().0 <= 400_000)
MaxFrequency == 400000
\* init(): let sdadel = 2; let scldel = 4
SdaDel == 2
SclDel == 4
\* init(): match scll { 0.0..=256.0 => .., _ => 255 }
ScllRange == 256
ScllSaturated == 255
\* init(): match presc { 0.0..=16.0 => .., _ => 15 }
PrescRange == 16
PrescSaturated == 15
\* I2C_TIMINGR.PRESC is a 4-bit field
PrescField == 16
\* f32: a significand of 24 bits, 2^23 <= m < 2^24
F32Min == 8388608
F32Lim == 16777216
\* An arithmetic result that panicked (overflow checks on).
Overflowed == -1

\* --------------------------------------------------------------- inputs ----
Addrs == {80}
\* First byte a slave answers with; it goes on with the following values
\* (the driver never looks at the data it moves).
RxBytes == {165, 90}
RxNext(b) == (b + 1) % U8
\* The caller's buffer before read() fills it.
InitFill == 0
\* Payload of n bytes, all different for n < 256.
Ramp(n) == [i \in 1..n |-> (i * 37 + 11) % U8]
Lens == (0..MaxLen) \cup {LenLimit}
SysClks == {1000000, 1500000}
\* Constructor arguments of the operating driver.
Modes == {[kind |-> "Standard", frequency |-> 100000],
          [kind |-> "Standard", frequency |-> 400001],
          [kind |-> "Fast", frequency |-> 400000],
          [kind |-> "FastPlus", frequency |-> 100000]}
Pclks == {8000000}
\* Constructor arguments for the timing and budget computations: every mode,
\* targets up to just over the 400 kHz limit, APB1 clocks from a divided HSI
\* up to the 54 MHz maximum (16 MHz is the HSI itself, 512 times 31.25 kHz),
\* timeouts up to 20 s and core clocks up to 216 MHz.
ModeKinds == {"Standard", "Fast", "FastPlus"}
Frequencies == {31250, 100000, 400000, 400001}
WidePclks == {800000, 1600000, 8000000, 12800000, 16000000, 54000000}
WideTimeoutsUs == {0, 1, 10, 20000000}
WideSysClks == {999999, 1000000, 1500000, 216000000}
\* How the build treats `f32 as u8` out of range (saturating since Rust
\* 1.45, before that the target's conversion: the low 8 bits) and integer
\* overflow (checked in a debug build, wrapping in a release build).
Builds == [cast : {"saturating", "truncating"}, checks : BOOLEAN]
Release == [cast |-> "saturating", checks |-> FALSE]
\* Cycle counter values a wait may begin at (any time passes between two
\* waits): from 2^32 - 1 the counter wraps through 0 during the wait.
StartCycles == {<<0, 0>>, <<Half - 1, Half - 1>>}

FaultLatches == {"berr", "arlo", "nackf", "ovr"}
Latches == FaultLatches \cup {"stopf"}
ProtocolErrors == {"Bus", "Arbitration", "Acknowledge", "Overrun"}

VARIABLES
    pc,           \* position of the driver: idle (between operations),
                  \* wait_start, wait, done (returning), panicked; in the
                  \* constructor: new, init, timing, enable, built, ctor_failed
    op,           \* operation in progress: none, write, read, write_read
    addr,         \* argument addr
    bytes,        \* argument bytes
    buffer,       \* argument buffer (mutable)
    buffer0,      \* buffer as the caller passed it
    idx,          \* 1-based position of the for loop in progress
    waitfor,      \* readiness flag of the wait in progress: txis, rxne, tc
    result,       \* value returned: none, Ok, WouldBlock, Bus, ..., panic;
                  \* of a failed constructor: panic, unimplemented, overflow
    data_timeout, \* BlockingI2c.data_timeout
    cr2,          \* I2C_CR2 fields written by start()
    isr,          \* latched I2C_ISR bits (cleared only through I2C_ICR)
    now,          \* DWT cycle counter
    started,      \* busy_wait_cycles!: let started = DWT::get_cycle_count()
    ticks,        \* cycles really elapsed since `started` (history)
    log,          \* hardware actions of the operation in progress (history)
    last_isr,     \* the value `isr` read by the last check_status_flag!
    last_res,     \* what that check returned
    isr_after,    \* the latches right after that check's I2C_ICR write
    mode,         \* I2c.mode (the constructor's argument mode)
    clocks,       \* the constructor's argument clocks: pclk1 and sysclk
    data_timeout_us, \* the constructor's argument data_timeout_us
    pclk,         \* I2c.pclk
    cr1,          \* I2C_CR1.PE
    timingr,      \* I2C_TIMINGR
    build,        \* how the program was compiled
    prev          \* operation and result of the call that returned last (history)

vars == <<pc, op, addr, bytes, buffer, buffer0, idx, waitfor, result,
          data_timeout, cr2, isr, now, started, ticks, log, last_isr,
          last_res, isr_after, mode, clocks, data_timeout_us, pclk, cr1,
          timingr, build, prev>>

\* ------------------------------------------------------- pure functions ----

\* The u32 with value n, 0 <= n < 2^31.
U32Of(n) == <<n \div Half, n % Half>>

\* x * y mod 2^16 for 16-bit x, y, without leaving 31 bits
MulModHalf(x, y) == (((x * (y \div U8)) % Half) * U8 + x * (y % U8)) % Half

\* x * y for 16-bit x, y, as a u32
MulWide(x, y) ==
    LET p1 == x * (y % U8)
        p2 == x * (y \div U8)
        low == (p2 % U8) * U8 + p1
    IN <<p2 \div U8 + low \div Half, low % Half>>

\* u32 multiplication, wrapping at 2^32
WrappingMul(a, b) ==
    <<(MulWide(a[2], b[2])[1] + MulModHalf(a[1], b[2]) + MulModHalf(a[2], b[1])) % Half,
      MulWide(a[2], b[2])[2]>>

\* u32 addition, wrapping at 2^32
WrappingAdd(a, b) ==
    <<(a[1] + b[1] + (a[2] + b[2]) \div Half) % Half, (a[2] + b[2]) % Half>>

\* Variant: a subtraction that stops at 0 instead of wrapping.
SaturatingSub(a, b) ==
    IF a[1] > b[1] \/ (a[1] = b[1] /\ a[2] >= b[2])
    THEN <<(a[1] - b[1] - (IF a[2] < b[2] THEN 1 ELSE 0) + Half) % Half,
           (a[2] - b[2] + Half) % Half>>
    ELSE <<0, 0>>

\* u32::wrapping_sub
WrappingSub(a, b) ==
    <<(a[1] - b[1] - (IF a[2] < b[2] THEN 1 ELSE 0) + Half) % Half,
      (a[2] - b[2] + Half) % Half>>

\* a >= b on u32
GeU32(a, b) == a[1] > b[1] \/ (a[1] = b[1] /\ a[2] >= b[2])

\* blocking_i2c: data_timeout = data_timeout_us * (sysclk / 1_000_000)
BlockingI2cTimeout(timeout_us, sysclk) ==
    WrappingMul(U32Of(timeout_us), U32Of(sysclk \div HzPerMHz))

\* Variant: a wait without a timeout.
ExitCondNever(cur, start0, cycles) == FALSE

\* the $exit_cond of busy_wait_cycles!
ExitCond(cur, start0, cycles) == GeU32(WrappingSub(cur, start0), cycles)

\* Variant: the upper limit off by one.
LenOkOffByOne(n) == n <= LenLimit /\ n > 0

\* assert!(len < 256 && len > 0)
LenOk(n) == n < LenLimit /\ n > 0

\* Variant: the overrun test placed before the no-ack test.
CheckStatusFlagOvrFirst(s) ==
    IF s.berr THEN "Bus"
    ELSE IF s.arlo THEN "Arbitration"
    ELSE IF s.ovr THEN "Overrun"
    ELSE IF s.nackf THEN "Acknowledge"
    ELSE IF s.flag THEN "Ok"
    ELSE "WouldBlock"

\* Variant: the readiness test inverted (is_empty for is_not_empty).
CheckStatusFlagInverted(s) ==
    IF s.berr THEN "Bus"
    ELSE IF s.arlo THEN "Arbitration"
    ELSE IF s.nackf THEN "Acknowledge"
    ELSE IF s.ovr THEN "Overrun"
    ELSE IF ~s.flag THEN "Ok"
    ELSE "WouldBlock"

\* check_status_flag!: classification of one ISR value; s.flag is isr.$flag().$status()
CheckStatusFlag(s) ==
    IF s.berr THEN "Bus"
    ELSE IF s.arlo THEN "Arbitration"
    ELSE IF s.nackf THEN "Acknowledge"
    ELSE IF s.ovr THEN "Overrun"
    ELSE IF s.flag THEN "Ok"
    ELSE "WouldBlock"

\* Variant: the no-ack branch forgets stopcf.
IcrBitsNackOnly(res) ==
    CASE res = "Bus" -> {"berr"}
      [] res = "Arbitration" -> {"arlo"}
      [] res = "Acknowledge" -> {"nackf"}
      [] res = "Overrun" -> {"stopf", "ovr"}
      [] OTHER -> {}

\* check_status_flag!: the bits set in the I2C_ICR write of each branch
IcrBits(res) ==
    CASE res = "Bus" -> {"berr"}
      [] res = "Arbitration" -> {"arlo"}
      [] res = "Acknowledge" -> {"stopf", "nackf"}
      [] res = "Overrun" -> {"stopf", "ovr"}
      [] OTHER -> {}

\* I2C_ICR is write-1-to-clear: the named latches are cleared, the others kept.
IcrWrite(latches, bits) == [f \in Latches |-> latches[f] /\ f \notin bits]

\* Variant: the exit condition tested before the result.
BusyWaitExitFirst(res, exit_cond) ==
    IF exit_cond THEN "WouldBlock"
    ELSE IF res # "WouldBlock" THEN res
    ELSE "retry"

\* busy_wait!: one iteration; "retry" when the loop goes round again.
BusyWait(res, exit_cond) ==
    IF res # "WouldBlock" THEN res
    ELSE IF exit_cond THEN res
    ELSE "retry"

\* I2c::start: the value written to I2C_CR2 (write, not modify: the fields
\* the closure leaves alone, STOP among them, get their reset value 0)
StartCr2(a, n_bytes, read, auto_stop) ==
    [sadd |-> (a * 2) % U8, nbytes |-> n_bytes, start |-> TRUE,
     rd_wrn |-> read, autoend |-> auto_stop, stop |-> FALSE]

\* `len as u8`
AsU8(n) == n % U8

\* ------------------------------------------------------------------ f32 ----
\* A positive f32 is <<m, e>> with value m * 2^e and 2^23 <= m < 2^24; zero is
\* <<0, 0>>.  Every value init() computes from the inputs drawn lies between
\* 2^-30 and 2^31, inside the normal range of f32.

RECURSIVE ShiftOf(_)
\* how many low bits n >= 2^24 loses to fit the significand
ShiftOf(n) == IF n < F32Lim THEN 0 ELSE 1 + ShiftOf(n \div 2)

RECURSIVE NormUp(_, _)
\* scales 0 < m < 2^24 up to the normal form
NormUp(m, e) == IF m >= F32Min THEN <<m, e>> ELSE NormUp(2 * m, e - 1)

\* q * 2^e (plus something below the last bit of q when sticky) rounded to
\* nearest, ties to even, for q >= 2^23
RoundF32(q, sticky, e) ==
    LET s == ShiftOf(q)
        p == 2 ^ s
        m == q \div p
        rem == q % p
        half == p \div 2
        up == IF s = 0 THEN FALSE
              ELSE rem > half \/ (rem = half /\ (sticky \/ m % 2 = 1))
        r == IF up THEN m + 1 ELSE m
    IN IF r = F32Lim THEN <<F32Min, e + s + 1>> ELSE <<r, e + s>>

\* `n as f32` for an integer 0 <= n < 2^31
F32OfInt(n) ==
    IF n = 0 THEN <<0, 0>>
    ELSE IF n < F32Min THEN NormUp(n, 0)
    ELSE RoundF32(n, FALSE, 0)

RECURSIVE DivBits(_, _, _, _)
\* n more quotient bits of r / d by long division, r < d
DivBits(r, d, n, q) ==
    IF n = 0 THEN <<q, r>>
    ELSE IF 2 * r >= d THEN DivBits(2 * r - d, d, n - 1, 2 * q + 1)
    ELSE DivBits(2 * r, d, n - 1, 2 * q)

\* a / b on f32, b > 0
F32Div(a, b) ==
    IF a[1] = 0 THEN <<0, 0>>
    ELSE LET q0 == a[1] \div b[1]
             qr == DivBits(a[1] % b[1], b[1], 25, q0)
         IN RoundF32(qr[1], qr[2] # 0, a[2] - b[2] - 25)

\* 2.0 * a on f32 (exact)
F32Twice(a) == IF a[1] = 0 THEN a ELSE <<a[1], a[2] + 1>>

\* a.ceil(), as the integer it is; anything from 2^30 on is given as 2^30
F32Ceil(a) ==
    IF a[1] = 0 THEN 0
    ELSE IF a[2] >= 0 THEN (IF a[2] > 6 THEN 2 ^ 30 ELSE a[1] * 2 ^ a[2])
    ELSE IF a[2] <= -24 THEN 1
    ELSE (a[1] + 2 ^ (-a[2]) - 1) \div 2 ^ (-a[2])

\* --------------------------------------------------------- construction ----

\* Variant: the limit of Fast-mode Plus taken for the limit of the driver.
FrequencyOkFastPlus(f) == f <= 1000000

\* assert!(mode.get_frequency().0 <= 400_000)
FrequencyOk(f) == f <= MaxFrequency

\* `x as f32 / 1_000_000.0`
MHzF32(hz) == F32Div(F32OfInt(hz), F32OfInt(HzPerMHz))

\* `v as u8` for a non-negative integral f32: saturating since Rust 1.45,
\* before that whatever the target's conversion gives (the low 8 bits of
\* the 32-bit result).
F32AsU8(v, cast) ==
    IF cast = "saturating" THEN (IF v >= U8 THEN U8 - 1 ELSE v) ELSE v % U8

\* `x - 1` on u8: with overflow checks a panic at 0, without them 255
SubOne(x, checks) ==
    IF x > 0 THEN x - 1 ELSE IF checks THEN Overflowed ELSE U8 - 1

\* init(): (base_clk_mhz / (2.0 * target_freq_mhz)).ceil()
ScllCeil(pclk0, frequency) ==
    F32Ceil(F32Div(MHzF32(pclk0), F32Twice(MHzF32(frequency))))

\* init(): let scll: u8 = match scll { 0.0..=256.0 => scll as u8 - 1, _ => 255 }
ScllOf(pclk0, frequency, cast, checks) ==
    LET c == ScllCeil(pclk0, frequency) IN
    IF c <= ScllRange THEN SubOne(F32AsU8(c, cast), checks) ELSE ScllSaturated

\* init(): fscll_mhz = base_clk_mhz / (scll as f32 + 1.0);
\* presc = base_clk_mhz / fscll_mhz, rounded up to an integer
PrescCeil(pclk0, scll) ==
    F32Ceil(F32Div(MHzF32(pclk0), F32Div(MHzF32(pclk0), F32OfInt(scll + 1))))

\* init(): let presc: u8 = match presc { 0.0..=16.0 => sclh as u8 - 1, _ => 15 }
\* (presc <= 16.0 exactly when its ceiling is <= 16)
PrescOf(pclk0, sclh, checks) ==
    IF PrescCeil(pclk0, sclh) <= PrescRange THEN SubOne(sclh, checks)
    ELSE PrescSaturated

\* init(): the value of the one write to I2C_TIMINGR; the PRESC writer keeps
\* the low 4 bits of its u8 argument.
TimingrOf(presc, scll) ==
    [presc |-> presc % PrescField, scll |-> scll, sclh |-> scll,
     sdadel |-> SdaDel, scldel |-> SclDel]

\* blocking_i2c: data_timeout_us * sysclk_mhz overflows u32
MulOverflows(timeout_us, sysclk_mhz) ==
    LET t == U32Of(timeout_us) IN
    t[1] * sysclk_mhz + (t[2] * sysclk_mhz) \div Half >= Half

\* ------------------------------------------------------ history events ----
EvWaitStart == <<"wait_start", 0, 0, FALSE, FALSE>>
EvStart(a, n, read, auto_stop) == <<"start", a, n, read, auto_stop>>
EvWait(flag) == <<"wait_" \o flag, 0, 0, FALSE, FALSE>>
EvPush(b) == <<"push", b, 0, FALSE, FALSE>>
EvPop(b) == <<"pop", b, 0, FALSE, FALSE>>
EvCr1(pe) == <<"cr1", 0, 0, pe, FALSE>>
EvTimingr(t) == <<"timingr", t.presc, t.scll, FALSE, FALSE>>

NoLatch == [f \in Latches |-> FALSE]
NoIsr == [berr |-> FALSE, arlo |-> FALSE, nackf |-> FALSE, ovr |-> FALSE,
          stopf |-> FALSE, flag |-> FALSE]
NoCall == <<"none", "none">>
NoClocks == [pclk1 |-> 0, sysclk |-> 0]

\* Register values after the RCC reset of the peripheral.
Cr1Reset == [pe |-> FALSE]
Cr2Reset == [sadd |-> 0, nbytes |-> 0, start |-> FALSE, rd_wrn |-> FALSE,
             autoend |-> FALSE, stop |-> FALSE]
TimingrReset == [presc |-> 0, scll |-> 0, sclh |-> 0, sdadel |-> 0, scldel |-> 0]

\* ----------------------------------------------------------------- Init ----
\* State after BlockingI2c::_i2cX: the peripheral was reset, nothing is
\* latched; constructed in Standard mode at 100 kHz from an 8 MHz APB1 clock.
Init ==
    /\ pc = "idle"
    /\ op = "none"
    /\ addr = 0
    /\ bytes = <<>>
    /\ buffer = <<>>
    /\ buffer0 = <<>>
    /\ idx = 1
    /\ waitfor = "none"
    /\ result = "none"
    /\ data_timeout \in {BlockingI2cTimeout(us, clk) : us \in 0..MaxTimeoutUs, clk \in SysClks}
    /\ cr2 = Cr2Reset
    /\ isr = NoLatch
    /\ now = U32Of(0)
    /\ started = U32Of(0)
    /\ ticks = 0
    /\ log = <<>>
    /\ last_isr = NoIsr
    /\ last_res = "none"
    /\ isr_after = NoLatch
    /\ mode = [kind |-> "Standard", frequency |-> 100000]
    /\ clocks = NoClocks
    /\ data_timeout_us = 0
    /\ pclk = 8000000
    /\ cr1 = [pe |-> TRUE]
    /\ timingr = TimingrOf(PrescOf(8000000, ScllOf(8000000, 100000, "saturating", FALSE), FALSE),
                           ScllOf(8000000, 100000, "saturating", FALSE))
    /\ build = Release
    /\ prev = NoCall

\* State at the call of BlockingI2c::i2cX with the arguments drawn; the
\* peripheral may have been used (and enabled) before.
CtorInitOf(modes, pclks, timeouts, sysclks, builds) ==
    /\ pc = "new"
    /\ op = "none"
    /\ addr = 0
    /\ bytes = <<>>
    /\ buffer = <<>>
    /\ buffer0 = <<>>
    /\ idx = 1
    /\ waitfor = "none"
    /\ result = "none"
    /\ data_timeout = U32Of(0)
    /\ cr2 = Cr2Reset
    /\ isr = NoLatch
    /\ now = U32Of(0)
    /\ started = U32Of(0)
    /\ ticks = 0
    /\ log = <<>>
    /\ last_isr = NoIsr
    /\ last_res = "none"
    /\ isr_after = NoLatch
    /\ mode \in modes
    /\ clocks \in [pclk1 : pclks, sysclk : sysclks]
    /\ data_timeout_us \in timeouts
    /\ pclk = 0
    /\ cr1 \in [pe : BOOLEAN]
    /\ timingr = TimingrReset
    /\ build \in builds
    /\ prev = NoCall

CtorInit ==
    CtorInitOf([kind : ModeKinds, frequency : Frequencies], WidePclks,
               WideTimeoutsUs, WideSysClks, Builds)

LifeInit == CtorInitOf(Modes, Pclks, 0..MaxTimeoutUs, SysClks, {Release})

\* -------------------------------------------------------- constructor ----
ctorvars == <<mode, clocks, data_timeout_us, pclk, cr1, timingr, build>>
opvars == <<op, addr, bytes, buffer, buffer0, idx, waitfor, now, started,
            ticks, last_isr, last_res, isr_after, build, prev>>

\* I2c::_i2cX up to the call of init(): $I2CX::enable(apb), $I2CX::reset(apb)
\* (RCC registers; the reset puts the peripheral's registers at their reset
\* values), pclk, and the assert on the frequency.
I2cNew ==
    /\ pc = "new"
    /\ cr1' = Cr1Reset
    /\ cr2' = Cr2Reset
    /\ timingr' = TimingrReset
    /\ isr' = NoLatch
    /\ pclk' = clocks.pclk1
    /\ IF FrequencyOk(mode.frequency)
       THEN pc' = "init" /\ UNCHANGED result
       ELSE pc' = "ctor_failed" /\ result' = "panic"
    /\ UNCHANGED <<opvars, mode, clocks, data_timeout_us, data_timeout, log>>

\* Variant: the peripheral left enabled during configuration.
InitDisableEnabled ==
    /\ pc = "init"
    /\ cr1' = [pe |-> TRUE]
    /\ log' = log \o <<EvCr1(TRUE)>>
    /\ pc' = "timing"
    /\ UNCHANGED <<opvars, mode, clocks, data_timeout_us, pclk, timingr,
                   data_timeout, result, cr2, isr>>

\* init(): self.i2c.cr1.write(|w| w.pe().disabled())
InitDisable ==
    /\ pc = "init"
    /\ cr1' = [pe |-> FALSE]
    /\ log' = log \o <<EvCr1(FALSE)>>
    /\ pc' = "timing"
    /\ UNCHANGED <<opvars, mode, clocks, data_timeout_us, pclk, timingr,
                   data_timeout, result, cr2, isr>>

\* init(): match self.mode: Standard computes the fields and writes
\* I2C_TIMINGR once; any other mode is unimplemented!().  A `- 1` on 0
\* panics in a build with overflow checks and wraps in one without.
InitTiming ==
    /\ pc = "timing"
    /\ IF mode.kind # "Standard"
       THEN /\ pc' = "ctor_failed"
            /\ result' = "unimplemented"
            /\ UNCHANGED <<timingr, log>>
       ELSE LET scll == ScllOf(pclk, mode.frequency, build.cast, build.checks)
                presc == IF scll = Overflowed THEN Overflowed
                         ELSE PrescOf(pclk, scll, build.checks)
            IN IF presc = Overflowed
               THEN /\ pc' = "ctor_failed"
                    /\ result' = "overflow"
                    /\ UNCHANGED <<timingr, log>>
               ELSE /\ timingr' = TimingrOf(presc, scll)
                    /\ log' = log \o <<EvTimingr(TimingrOf(presc, scll))>>
                    /\ pc' = "enable"
                    /\ UNCHANGED result
    /\ UNCHANGED <<opvars, mode, clocks, data_timeout_us, pclk, cr1,
                   data_timeout, cr2, isr>>

\* init(): self.i2c.cr1.modify(|_, w| w.pe().enabled()); the I2c is returned
InitEnable ==
    /\ pc = "enable"
    /\ cr1' = [cr1 EXCEPT !.pe = TRUE]
    /\ log' = log \o <<EvCr1(TRUE)>>
    /\ pc' = "built"
    /\ UNCHANGED <<opvars, mode, clocks, data_timeout_us, pclk, timingr,
                   data_timeout, result, cr2, isr>>

\* blocking_i2c: the BlockingI2c is returned with its budget; the
\* multiplication panics on overflow in a build with overflow checks and
\* wraps in one without.  The constructor's arguments are gone.
BlockingI2c ==
    /\ pc = "built"
    /\ IF build.checks /\ MulOverflows(data_timeout_us, clocks.sysclk \div HzPerMHz)
       THEN /\ pc' = "ctor_failed"
            /\ result' = "overflow"
            /\ UNCHANGED <<data_timeout, clocks, data_timeout_us, log>>
       ELSE /\ data_timeout' = BlockingI2cTimeout(data_timeout_us, clocks.sysclk)
            /\ pc' = "idle"
            /\ clocks' = NoClocks
            /\ data_timeout_us' = 0
            /\ log' = <<>>
            /\ UNCHANGED result
    /\ UNCHANGED <<opvars, mode, pclk, cr1, timingr, cr2, isr>>

\* ------------------------------------------------------------- driver ----
callvars == <<op, addr, bytes, buffer0, data_timeout, ctorvars, prev>>
checkvars == <<last_isr, last_res, isr_after>>

\* Entering write / read / write_read.  With the asserts holding the operation enters wait_start(); otherwise it
\* panics before its first register access.
Call(o, a, b, buf, ok) ==
    /\ pc = "idle"
    /\ op' = o
    /\ addr' = a
    /\ bytes' = b
    /\ buffer' = buf
    /\ buffer0' = buf
    /\ idx' = 1
    /\ waitfor' = "none"
    /\ started' = U32Of(0)
    /\ ticks' = 0
    /\ last_isr' = NoIsr
    /\ last_res' = "none"
    /\ isr_after' = NoLatch
    /\ IF ok
       THEN /\ pc' = "wait_start"
            /\ result' = "none"
            /\ log' = <<EvWaitStart>>
       ELSE /\ pc' = "panicked"
            /\ result' = "panic"
            /\ log' = <<>>
    /\ prev' = NoCall
    /\ UNCHANGED <<data_timeout, cr2, isr, now, ctorvars>>

\* The caller has the returned value; the operation's locals are gone.  The
\* counter runs on unobserved until the next wait reads it.
Returned ==
    /\ pc = "done"
    /\ pc' = "idle"
    /\ op' = "none"
    /\ addr' = 0
    /\ bytes' = <<>>
    /\ buffer' = <<>>
    /\ buffer0' = <<>>
    /\ idx' = 1
    /\ waitfor' = "none"
    /\ result' = "none"
    /\ started' = U32Of(0)
    /\ ticks' = 0
    /\ log' = <<>>
    /\ last_isr' = NoIsr
    /\ last_res' = "none"
    /\ isr_after' = NoLatch
    /\ now' = U32Of(0)
    /\ prev' = <<op, result>>
    /\ UNCHANGED <<data_timeout, cr2, isr, ctorvars>>

\* write(): assert!(bytes.len() < 256 && bytes.len() > 0)
Write ==
    \E a \in Addrs, n \in Lens :
        Call("write", a, Ramp(n), <<>>, LenOk(n))

\* read(): assert!(buffer.len() < 256 && buffer.len() > 0)
Read ==
    \E a \in Addrs, m \in Lens :
        Call("read", a, <<>>, [i \in 1..m |-> InitFill], LenOk(m))

\* write_read(): both asserts precede wait_start()
WriteRead ==
    \E a \in Addrs, n \in Lens, m \in Lens :
        Call("write_read", a, Ramp(n), [i \in 1..m |-> InitFill],
             LenOk(n) /\ LenOk(m))

\* wait_start() has seen CR2.START clear; start() writes CR2 and the first
\* byte wait records its starting cycle count.  While CR2.START is set,
\* wait_start() spins without changing anything.
StartPhase(o, n, read, auto_stop, flag) ==
    /\ pc = "wait_start"
    /\ \E c \in StartCycles : now' = c /\ started' = c
    /\ op = o
    /\ ~cr2.start
    /\ cr2' = StartCr2(addr, AsU8(n), read, auto_stop)
    /\ log' = log \o <<EvStart(addr, AsU8(n), read, auto_stop), EvWait(flag)>>
    /\ pc' = "wait"
    /\ waitfor' = flag
    /\ ticks' = 0
    /\ UNCHANGED <<callvars, checkvars, buffer, idx, result, isr>>

\* Variant: write started without auto_stop.
WriteStartNoAutoStop == StartPhase("write", Len(bytes), FALSE, FALSE, "txis")

\* write(): self.wait_start(); self.nb.start(addr, len, false, true)
WriteStart == StartPhase("write", Len(bytes), FALSE, TRUE, "txis")

\* read(): self.wait_start(); self.nb.start(addr, len, true, true)
ReadStart == StartPhase("read", Len(buffer), TRUE, TRUE, "rxne")

\* Variant: the write phase of write_read started with auto_stop = true.
WriteReadStartAutoStop == StartPhase("write_read", Len(bytes), FALSE, TRUE, "txis")

\* write_read(): self.wait_start(); self.nb.start(addr, len, false, false)
WriteReadStart == StartPhase("write_read", Len(bytes), FALSE, FALSE, "txis")

\* The ISR value one check reads: the latches, and the readiness flag f as
\* the peripheral shows it at that instant.
Snap(f) ==
    [berr |-> isr.berr, arlo |-> isr.arlo, nackf |-> isr.nackf,
     ovr |-> isr.ovr, stopf |-> isr.stopf, flag |-> f]

\* One check_status_flag!: read ISR, classify, write ICR.
Check(f) ==
    /\ last_isr' = Snap(f)
    /\ last_res' = CheckStatusFlag(Snap(f))
    /\ isr' = IcrWrite(isr, IcrBits(CheckStatusFlag(Snap(f))))
    /\ isr_after' = IcrWrite(isr, IcrBits(CheckStatusFlag(Snap(f))))

\* One iteration of busy_wait_cycles!(check_status_flag!(..), self.data_timeout)
WaitOutcome(f) ==
    BusyWait(CheckStatusFlag(Snap(f)), ExitCond(now, started, data_timeout))

\* `?`: the operation returns r
Return(r) ==
    /\ pc' = "done"
    /\ result' = r

\* The next busy_wait_cycles! begins: let started = DWT::get_cycle_count(),
\* which reads c.
BeginWait(flag, c) ==
    /\ pc' = "wait"
    /\ waitfor' = flag
    /\ now' = c
    /\ started' = c
    /\ ticks' = 0

Retry ==
    UNCHANGED <<pc, idx, waitfor, result, log, buffer, cr2, now, started, ticks>>

\* Variant: the data port is written although the wait failed.
AbortAfterPush(r) ==
    /\ Return(r)
    /\ log' = log \o <<EvPush(0)>>
    /\ UNCHANGED <<idx, waitfor, buffer, cr2, now, started, ticks>>

Abort(r) ==
    /\ Return(r)
    /\ UNCHANGED <<idx, waitfor, log, buffer, cr2, now, started, ticks>>

\* for byte in bytes { self.wait_byte_write(*byte)?; } -- one poll of the wait
\* for bytes[idx]; on Ok the byte goes to TXDR.  after_last is the wait that
\* follows the last byte ("none": the operation returns Ok(())).
ByteWriteLoop(o, after_last) ==
    /\ pc = "wait"
    /\ op = o
    /\ waitfor = "txis"
    /\ \E f \in BOOLEAN, c \in StartCycles :
        LET r == WaitOutcome(f) IN
        /\ Check(f)
        /\ IF r = "retry" THEN Retry
           ELSE IF r # "Ok" THEN Abort(r)
           ELSE /\ idx' = idx + 1
                /\ UNCHANGED <<buffer, cr2>>
                /\ IF idx < Len(bytes)
                   THEN /\ BeginWait("txis", c)
                        /\ log' = log \o <<EvPush(bytes[idx]), EvWait("txis")>>
                        /\ UNCHANGED result
                   ELSE IF after_last = "none"
                   THEN /\ Return("Ok")
                        /\ log' = log \o <<EvPush(bytes[idx])>>
                        /\ UNCHANGED <<waitfor, now, started, ticks>>
                   ELSE /\ BeginWait(after_last, c)
                        /\ log' = log \o <<EvPush(bytes[idx]), EvWait(after_last)>>
                        /\ UNCHANGED result
    /\ UNCHANGED callvars

\* write(): lines 467-472
WriteLoop == ByteWriteLoop("write", "none")

\* write_read(): lines 521-523, then the transfer-complete wait begins
WriteReadWriteLoop == ByteWriteLoop("write_read", "tc")

\* write_read(): busy_wait_cycles!(check_status_flag!(.., tc, is_complete), ..)?
\* and then the repeated START self.nb.start(addr, len, true, true)
WriteReadRestart ==
    /\ pc = "wait"
    /\ op = "write_read"
    /\ waitfor = "tc"
    /\ \E f \in BOOLEAN, c \in StartCycles :
        LET r == WaitOutcome(f) IN
        /\ Check(f)
        /\ IF r = "retry" THEN Retry
           ELSE IF r # "Ok" THEN Abort(r)
           ELSE /\ cr2' = StartCr2(addr, AsU8(Len(buffer)), TRUE, TRUE)
                /\ log' = log \o <<EvStart(addr, AsU8(Len(buffer)), TRUE, TRUE),
                                   EvWait("rxne")>>
                /\ idx' = 1
                /\ BeginWait("rxne", c)
                /\ UNCHANGED <<buffer, result>>
    /\ UNCHANGED callvars

\* for byte in buffer { *byte = self.wait_byte_read()?; } -- one poll of the
\* wait for buffer[idx]; on Ok the byte b is taken from RXDR.
ByteReadLoop(o) ==
    /\ pc = "wait"
    /\ op = o
    /\ waitfor = "rxne"
    /\ \E f \in BOOLEAN,
          b \in IF idx = 1 THEN RxBytes ELSE {RxNext(buffer[idx - 1])},
          c \in StartCycles :
        LET r == WaitOutcome(f) IN
        /\ Check(f)
        /\ IF r = "retry" THEN Retry
           ELSE IF r # "Ok" THEN Abort(r)
           ELSE /\ buffer' = [buffer EXCEPT ![idx] = b]
                /\ idx' = idx + 1
                /\ UNCHANGED cr2
                /\ IF idx < Len(buffer)
                   THEN /\ BeginWait("rxne", c)
                        /\ log' = log \o <<EvPop(b), EvWait("rxne")>>
                        /\ UNCHANGED result
                   ELSE /\ Return("Ok")
                        /\ log' = log \o <<EvPop(b)>>
                        /\ UNCHANGED <<waitfor, now, started, ticks>>
    /\ UNCHANGED callvars

\* read(): lines 494-500
ReadLoop == ByteReadLoop("read")

\* write_read(): lines 535-540
WriteReadReadLoop == ByteReadLoop("write_read")

\* -------------------------------------------------------- environment ----
\* The peripheral latches a status bit.  CR2.NBYTES is 0 from reset until the
\* first start(): faults and STOP come only from a transfer the master began.
\* The driver reads ISR only in its waits: a bit latched during wait_start()
\* is one latched just before the operation was entered.
HwSetLatch ==
    /\ pc \in {"idle", "wait"}
    /\ cr2.nbytes # 0
    /\ \E f \in Latches :
        /\ ~isr[f]
        /\ isr' = [isr EXCEPT ![f] = TRUE]
    /\ UNCHANGED <<pc, callvars, checkvars, buffer, idx, waitfor, result, cr2,
                   now, started, ticks, log>>

\* The peripheral has sent START and the address: CR2.START reads 0 again.
\* The driver reads CR2.START only in wait_start(): a clear that happened
\* during the waits before is seen as one that happens here.
HwClearStart ==
    /\ pc \in {"idle", "wait_start"}
    /\ cr2.start
    /\ cr2' = [cr2 EXCEPT !.start = FALSE]
    /\ UNCHANGED <<pc, callvars, checkvars, buffer, idx, waitfor, result, isr,
                   now, started, ticks, log>>

\* DWT cycle counter: one more cycle during a busy wait.
Tick ==
    /\ pc = "wait"
    /\ ticks < TickSlack \/ ~GeU32(U32Of(ticks - TickSlack), data_timeout)
    /\ now' = WrappingAdd(now, U32Of(1))
    /\ ticks' = ticks + 1
    /\ UNCHANGED <<pc, callvars, checkvars, buffer, idx, waitfor, result, cr2,
                   isr, started, log>>

Driver ==
    \/ WriteStart \/ ReadStart \/ WriteReadStart
    \/ WriteLoop \/ ReadLoop
    \/ WriteReadWriteLoop \/ WriteReadRestart \/ WriteReadReadLoop

Next ==
    \/ Write \/ Read \/ WriteRead \/ Returned
    \/ Driver
    \/ HwSetLatch \/ HwClearStart \/ Tick

Spec == Init /\ [][Next]_vars

\* The constructor alone, over the wide range of arguments.
CtorNext ==
    \/ I2cNew \/ InitDisable \/ InitTiming \/ InitEnable \/ BlockingI2c

CtorSpec == CtorInit /\ [][CtorNext]_vars

\* The constructor followed by the operations of the driver it returns.
LifeNext == CtorNext \/ Next

LifeSpec == LifeInit /\ [][LifeNext]_vars

Starts == WriteStart \/ ReadStart \/ WriteReadStart

Polls ==
    \/ WriteLoop \/ ReadLoop
    \/ WriteReadWriteLoop \/ WriteReadRestart \/ WriteReadReadLoop

\* A poll that finds the awaited flag false.
NotReadyPoll == Polls /\ ~last_isr'.flag

\* The CPU keeps executing the driver and the cycle counter keeps counting.
\* Nothing obliges the peripheral to clear CR2.START or to raise a flag.
LiveSpec ==
    /\ Init
    /\ [][Next]_vars
    /\ WF_vars(Starts)
    /\ WF_vars(NotReadyPoll)
    /\ WF_vars(Tick)

\* ------------------------------------------------------------ histories ----
\* k byte-write waits, each followed by the push of its byte
PushSeq(b, k) ==
    [j \in 1..(2 * k) |-> IF j % 2 = 1 THEN EvWait("txis") ELSE EvPush(b[j \div 2])]

\* k byte-read waits, each followed by the pop that filled buf[i]
PopSeq(buf, k) ==
    [j \in 1..(2 * k) |-> IF j % 2 = 1 THEN EvWait("rxne") ELSE EvPop(buf[j \div 2])]

Succeeded(o) == pc = "done" /\ op = o /\ result = "Ok"
Failed == pc = "done" /\ result # "Ok"
LastLatches == [f \in Latches |-> last_isr[f]]

\* -------------------------------------------------------------- claims ----

\* C1: a write_read in which no wait fails performs exactly wait_start,
\* start(addr, len(bytes), Write, autoStop = false), one push per byte in
\* order, one transfer-complete wait, start(addr, len(buffer), Read,
\* autoStop = true), one pop per buffer element in order, and nothing else;
\* no STOP is requested in between and the read phase ends with auto-stop.
C1_WriteReadSequence ==
    Succeeded("write_read") =>
        /\ log = <<EvWaitStart, EvStart(addr, Len(bytes), FALSE, FALSE)>>
                 \o PushSeq(bytes, Len(bytes))
                 \o <<EvWait("tc"), EvStart(addr, Len(buffer), TRUE, TRUE)>>
                 \o PopSeq(buffer, Len(buffer))
        /\ cr2.autoend
        /\ ~cr2.stop

C1_Witness ==
    Succeeded("write_read") /\ Len(bytes) = 2 /\ Len(buffer) = 2

\* C2: the first wait that ends in a protocol error or a timeout ends the
\* operation: that failure is the value returned, the history stops at the
\* beginning of the failing wait (no push of that byte or a later one, no
\* repeated START, no pop) and the buffer is unchanged from the failing
\* index on.  A NACK in the wait for the first byte of a write returns
\* Acknowledge with no byte pushed.
C2_FirstFailureAborts ==
    Failed =>
        /\ result \in ProtocolErrors \cup {"WouldBlock"}
        /\ result = last_res
        /\ waitfor = "txis" =>
              /\ log = <<EvWaitStart,
                         EvStart(addr, Len(bytes), FALSE, op = "write")>>
                       \o PushSeq(bytes, idx - 1) \o <<EvWait("txis")>>
              /\ idx <= Len(bytes)
              /\ buffer = buffer0
        /\ waitfor = "tc" =>
              /\ log = <<EvWaitStart, EvStart(addr, Len(bytes), FALSE, FALSE)>>
                       \o PushSeq(bytes, Len(bytes)) \o <<EvWait("tc")>>
              /\ buffer = buffer0
        /\ waitfor = "rxne" =>
              /\ log = (IF op = "read"
                        THEN <<EvWaitStart, EvStart(addr, Len(buffer), TRUE, TRUE)>>
                        ELSE <<EvWaitStart, EvStart(addr, Len(bytes), FALSE, FALSE)>>
                             \o PushSeq(bytes, Len(bytes))
                             \o <<EvWait("tc"), EvStart(addr, Len(buffer), TRUE, TRUE)>>)
                       \o PopSeq(buffer, idx - 1) \o <<EvWait("rxne")>>
              /\ \A j \in idx..Len(buffer) : buffer[j] = buffer0[j]
        /\ (op = "write" /\ idx = 1 /\ last_isr.nackf /\ ~last_isr.berr /\ ~last_isr.arlo) =>
              /\ result = "Acknowledge"
              /\ \A j \in 1..Len(log) : log[j][1] # "push"

C2_Witness ==
    /\ Failed /\ op = "write" /\ Len(bytes) = 2 /\ idx = 1
    /\ result = "Acknowledge"

\* C3: one status check returns Bus if bus-error is set, otherwise
\* Arbitration if arbitration-loss is set, otherwise Acknowledge if no-ack is
\* set, otherwise Overrun if overrun is set, otherwise ready if the
\* readiness flag holds, otherwise not-ready.
C3_Priority ==
    last_res # "none" =>
        /\ last_isr.berr => last_res = "Bus"
        /\ (~last_isr.berr /\ last_isr.arlo) => last_res = "Arbitration"
        /\ (~last_isr.berr /\ ~last_isr.arlo /\ last_isr.nackf) =>
              last_res = "Acknowledge"
        /\ (~last_isr.berr /\ ~last_isr.arlo /\ ~last_isr.nackf /\ last_isr.ovr) =>
              last_res = "Overrun"
        /\ (\A f \in FaultLatches : ~last_isr[f]) =>
              last_res = (IF last_isr.flag THEN "Ok" ELSE "WouldBlock")

\* no-ack and overrun together, with the readiness flag holding
C3_Witness ==
    /\ last_isr.nackf /\ last_isr.ovr /\ last_isr.flag
    /\ last_res = "Acknowledge"

\* C4: a check that classifies an error clears exactly the latches of that
\* error (Bus: bus-error; Arbitration: arbitration-loss; Acknowledge: no-ack
\* and STOP; Overrun: overrun and STOP) and leaves every other latch as it
\* was; a check that returns ready or not-ready clears nothing.
C4_ClearsImplicated ==
    last_res # "none" =>
        /\ last_res = "Bus" =>
              isr_after = [LastLatches EXCEPT !.berr = FALSE]
        /\ last_res = "Arbitration" =>
              isr_after = [LastLatches EXCEPT !.arlo = FALSE]
        /\ last_res = "Acknowledge" =>
              isr_after = [LastLatches EXCEPT !.nackf = FALSE, !.stopf = FALSE]
        /\ last_res = "Overrun" =>
              isr_after = [LastLatches EXCEPT !.ovr = FALSE, !.stopf = FALSE]
        /\ last_res \in {"Ok", "WouldBlock"} => isr_after = LastLatches

\* an Acknowledge that found overrun and STOP latched too
C4_Witness ==
    /\ last_res = "Acknowledge"
    /\ last_isr.ovr /\ last_isr.stopf
    /\ isr_after.ovr /\ ~isr_after.stopf /\ ~isr_after.nackf

\* C5: no operation issues its START request with a fault latch still set:
\* whatever the hardware latched during or after an earlier operation has
\* been cleared by then.
C5_NoStaleFaultAtStart ==
    [][(pc = "wait_start" /\ pc' = "wait") =>
          \A f \in FaultLatches : ~isr[f]]_vars

\* C6 as stated: every call returns, whatever the hardware does.
C6_EveryCallReturns == (pc \in {"wait_start", "wait"}) ~> (pc = "done")

\* C6 amended: once the START-pending indicator that wait_start() polls is
\* clear, the call returns (success, protocol error or timeout), also when
\* the awaited readiness flag never becomes true.
C6_ReturnsOnceStartClear ==
    ((pc = "wait_start" /\ ~cr2.start) \/ pc = "wait") ~> (pc = "done")

\* a call that returned by timeout
C6_Witness == pc = "done" /\ result = "WouldBlock" /\ ~last_isr.flag

\* C7: in every wait, a poll that finds no fault latch and the awaited flag
\* false ends the wait with the timeout result exactly when the cycles
\* elapsed since the wait began have reached the budget, also when the
\* counter wrapped through 0 meanwhile; the timeout result is none of the
\* four protocol errors.
C7_TimeoutAtBudget ==
    /\ []((pc = "done" /\ result = "WouldBlock") =>
            /\ result \notin ProtocolErrors
            /\ \A f \in FaultLatches : ~last_isr[f]
            /\ ~last_isr.flag)
    /\ [][(/\ pc = "wait"
           /\ last_res' = "WouldBlock"
           /\ pc' = "done" \/ <<last_isr', last_res'>> # <<last_isr, last_res>>)
          => ((pc' = "done" /\ result' = "WouldBlock")
                <=> GeU32(U32Of(ticks), data_timeout))]_vars

\* a timeout of a wait during which the counter wrapped
C7_Witness ==
    /\ pc = "done" /\ result = "WouldBlock"
    /\ started = <<Half - 1, Half - 1>> /\ now = <<0, 0>>
    /\ data_timeout = <<0, 1>>

ValidLens ==
    /\ op \in {"write", "write_read"} => Len(bytes) \in 1..255
    /\ op \in {"read", "write_read"} => Len(buffer) \in 1..255

\* C8: an empty or longer-than-255 bytes or buffer panics before any
\* hardware access (no poll, START, status read, latch clear or data-port
\* access; the registers are as they were), write_read checking both; every
\* start() carries a byte count in 1..255 equal to the length it is for.
C8_AssertsBeforeHardware ==
    /\ [](/\ pc = "panicked" => (~ValidLens /\ log = <<>> /\ last_res = "none")
          /\ pc \in {"wait_start", "wait", "done"} => ValidLens
          /\ \A j \in 1..Len(log) :
                log[j][1] = "start" =>
                    /\ log[j][3] \in 1..255
                    /\ log[j][3] = (IF log[j][4] THEN Len(buffer) ELSE Len(bytes)))
    /\ [][pc' = "panicked" => (cr2' = cr2 /\ isr' = isr)]_vars

\* write_read with valid bytes and an over-long buffer
C8_Witness ==
    /\ pc = "panicked" /\ op = "write_read"
    /\ Len(bytes) = 1 /\ Len(buffer) = LenLimit

\* C9: a write in which no wait fails issues exactly one START,
\* start(addr, len, Write, autoStop = true), performs len byte-write waits,
\* pushes bytes[1..len] in order, each once, and returns success; the driver
\* requests no STOP itself.
C9_WriteSequence ==
    Succeeded("write") =>
        /\ log = <<EvWaitStart, EvStart(addr, Len(bytes), FALSE, TRUE)>>
                 \o PushSeq(bytes, Len(bytes))
        /\ cr2.nbytes = Len(bytes)
        /\ cr2.autoend /\ ~cr2.rd_wrn /\ ~cr2.stop

C9_Witness == Succeeded("write") /\ Len(bytes) = 2

\* C10: a read in which no wait fails issues exactly one START,
\* start(addr, len, Read, autoStop = true), performs len byte-read waits,
\* pops once per wait and only on a check that saw receive-non-empty, and
\* buffer[i] is the i-th byte popped.
C10_ReadSequence ==
    /\ [](Succeeded("read") =>
            /\ log = <<EvWaitStart, EvStart(addr, Len(buffer), TRUE, TRUE)>>
                     \o PopSeq(buffer, Len(buffer))
            /\ cr2.nbytes = Len(buffer)
            /\ cr2.autoend /\ cr2.rd_wrn)
    /\ [][(Len(log') > Len(log) /\ log'[Len(log) + 1][1] = "pop") =>
            /\ waitfor = "rxne"
            /\ last_isr'.flag
            /\ last_res' = "Ok"
            /\ buffer'[idx] = log'[Len(log) + 1][2]]_vars

C10_Witness == Succeeded("read") /\ Len(buffer) = 2

\* --------------------------------------------- claims on construction ----
\* I2C_TIMINGR has been written by a Standard-mode init().
Configured == pc \in {"enable", "built", "idle"} /\ mode.kind = "Standard"

\* ceil(a / b) on integers
CeilDiv(a, b) == (a + b - 1) \div b

\* C11: the SCL frequency the written fields give,
\* pclk / ((presc + 1) * ((scll + 1) + (sclh + 1))), is within 10% of the
\* target frequency: with d the divisor, 9 * target <= 10 * pclk / d and
\* 10 * pclk / d <= 11 * target.
C11_SclWithinTolerance ==
    Configured =>
        LET d == (timingr.presc + 1) * ((timingr.scll + 1) + (timingr.sclh + 1)) IN
        /\ (10 * pclk) \div d >= 9 * mode.frequency
        /\ CeilDiv(10 * pclk, d) <= 11 * mode.frequency

\* C12: the SCL-low field is ceil(pclk / (2 * target)) - 1, saturating to 255
\* from a ceiling of 256 on, and the SCL-high field equals it.
C12_ScllIsCeilMinusOne ==
    Configured =>
        LET c == CeilDiv(pclk, 2 * mode.frequency) IN
        /\ timingr.scll = (IF c - 1 > 255 THEN 255 ELSE c - 1)
        /\ timingr.sclh = timingr.scll

\* No `- 1` of the derivation is applied to 0 (checked or not).
NoUnderflow(pclk0, frequency, cast) ==
    LET scll == ScllOf(pclk0, frequency, cast, TRUE) IN
    /\ scll # Overflowed
    /\ PrescOf(pclk0, scll, TRUE) # Overflowed

\* C13: the Standard-mode derivation completes, with no 8-bit underflow or
\* overflow, and writes presc in 0..15, scll in 0..255 and sclh in 0..255.
C13_DerivationInRange ==
    [][(pc = "timing" /\ mode.kind = "Standard") =>
          /\ NoUnderflow(pclk, mode.frequency, build.cast)
          /\ pc' = "enable"
          /\ timingr'.presc \in 0..15
          /\ timingr'.scll \in 0..255
          /\ timingr'.sclh \in 0..255]_vars

\* Positions of the driver once it is constructed.
OpStates == {"idle", "wait_start", "wait", "done", "panicked"}

HasEvent(name) == \E j \in 1..Len(log) : log[j][1] = name

\* C14: a target above 400 kHz fails (assert) before any write to a register
\* of the peripheral: CR1, TIMINGR and CR2 are as the reset left them.  A
\* mode other than Standard fails as unimplemented with TIMINGR never
\* written and the peripheral never enabled.  A failed construction stays
\* failed: no driver exists and no operation is ever entered.
C14_RejectsBeforeRegisters ==
    /\ []((mode.frequency > 400000 /\ pc # "new") =>
            /\ pc = "ctor_failed" /\ result = "panic"
            /\ log = <<>>
            /\ cr1 = Cr1Reset /\ timingr = TimingrReset /\ cr2 = Cr2Reset)
    /\ []((mode.kind # "Standard" /\ mode.frequency <= 400000) =>
            /\ pc \in {"new", "init", "timing", "ctor_failed"}
            /\ pc = "ctor_failed" => result = "unimplemented"
            /\ ~HasEvent("timingr") /\ timingr = TimingrReset
            /\ pc # "new" => ~cr1.pe
            /\ EvCr1(TRUE) \notin {log[j] : j \in 1..Len(log)})
    /\ [][pc = "ctor_failed" => pc' = "ctor_failed"]_vars

\* a Fast-mode construction that failed after disabling the peripheral
C14_Witness ==
    /\ pc = "ctor_failed" /\ result = "unimplemented"
    /\ mode.kind = "Fast" /\ log = <<EvCr1(FALSE)>>

\* C15: every start() is directly preceded by a wait_start() that saw
\* CR2.START clear, with no other start() in between: in the history of an
\* operation each START event follows a wait_start event immediately.
C15_WaitStartBeforeEveryStart ==
    \A j \in 1..Len(log) :
        log[j][1] = "start" => (j > 1 /\ log[j - 1][1] = "wait_start")

\* C16: init() clears PE, then writes all the timing fields in one write of
\* TIMINGR with PE clear, then sets PE; TIMINGR changes in no other step;
\* once the driver is constructed no operation writes TIMINGR or CR1.
C16_TimingWrittenWhileDisabled ==
    /\ [](/\ pc \in {"new", "init"} => log = <<>>
          /\ pc = "timing" => (log = <<EvCr1(FALSE)>> /\ ~cr1.pe)
          /\ pc = "enable" =>
                /\ log = <<EvCr1(FALSE), EvTimingr(timingr)>>
                /\ ~cr1.pe
                /\ timingr.sclh = timingr.scll
                /\ timingr.sdadel = SdaDel /\ timingr.scldel = SclDel
          /\ pc = "built" =>
                /\ log = <<EvCr1(FALSE), EvTimingr(timingr), EvCr1(TRUE)>>
                /\ cr1.pe
          /\ pc \in OpStates =>
                (cr1.pe /\ ~HasEvent("timingr") /\ ~HasEvent("cr1")))
    /\ [][timingr' # timingr => (pc = "timing" /\ ~cr1.pe /\ ~cr1'.pe)]_vars
    /\ [][(pc \in OpStates) => (timingr' = timingr /\ cr1' = cr1)]_vars

\* an operation that ran to its end on the constructed driver
C16_Witness ==
    /\ pc = "done" /\ op = "write_read"
    /\ cr1.pe /\ timingr = TimingrOf(15, 39)

\* timeout_us * sysclk / 10^6 loses a whole cycle or more when the clock is
\* truncated to whole MHz first
TruncationLoses(timeout_us, sysclk) ==
    LET r == sysclk % HzPerMHz IN
    r # 0 /\ timeout_us >= CeilDiv(HzPerMHz, r)

\* C17: the budget stored at construction is the exact product of
\* data_timeout_us and the clock in MHz, with no wraparound at 2^32 and
\* nothing lost to the truncation of the clock, for every pair of arguments;
\* no operation changes it.
C17_BudgetIsExactProduct ==
    /\ [][pc = "built" =>
            /\ pc' = "idle"
            /\ ~MulOverflows(data_timeout_us, clocks.sysclk \div HzPerMHz)
            /\ ~TruncationLoses(data_timeout_us, clocks.sysclk)
            /\ data_timeout' = WrappingMul(U32Of(data_timeout_us),
                                           U32Of(clocks.sysclk \div HzPerMHz))]_vars
    /\ [][(pc \in OpStates) => data_timeout' = data_timeout]_vars

\* C18: after a write that returned success no NACK of one of its bytes is
\* still to come: when the next operation is entered, no-ack is not latched
\* (a successful write saw no fault latch in its last check, so a no-ack
\* found then was latched after that write returned).
C18_WriteOkMeansAcknowledged ==
    [][(pc = "idle" /\ prev = <<"write", "Ok">> /\ pc' = "wait_start") =>
          ~isr.nackf]_vars

\* C19: a write_read that fails in its write phase or in the
\* transfer-complete wait does not leave the transaction open: the driver
\* has requested a STOP or armed auto-end, or the failure is one after which
\* the peripheral itself ends the transfer (a NACK is followed by an
\* automatic STOP, a lost arbitration releases the bus).
C19_FailureReleasesBus ==
    (Failed /\ op = "write_read" /\ waitfor \in {"txis", "tc"}) =>
        \/ cr2.stop
        \/ cr2.autoend
        \/ result \in {"Acknowledge", "Arbitration"}

\* C20: a wait checks the status before it tests the timeout, and a result
\* other than not-ready wins over an expired budget: a timeout is returned
\* only when the last check returned not-ready; a check that returned ready
\* is never followed by a failure of that wait, and a check that returned a
\* protocol error returns it, also with a budget of 0 cycles.
C20_CheckBeforeTimeout ==
    /\ []((pc = "done" /\ result = "WouldBlock") => last_res = "WouldBlock")
    /\ []((pc = "done" /\ last_res \in ProtocolErrors) => result = last_res)
    /\ [][(pc = "wait" /\ pc' = "done" /\ last_res' = "Ok") => result' = "Ok"]_vars
    /\ [][(pc = "wait" /\ pc' = "done" /\ result' = "WouldBlock") =>
            (~last_isr'.flag /\ \A f \in FaultLatches : ~last_isr'[f])]_vars

\* with a budget of 0: a write_read that succeeded in every wait
C20_Witness ==
    /\ data_timeout = U32Of(0)
    /\ Succeeded("write_read") /\ Len(bytes) = 2 /\ Len(buffer) = 2

====
